---- MODULE Spec2Model ----
(***************************************************************************)
(* Model of pr_review_agent_final.py: a CI step that reads a diff and a    *)
(* Semgrep findings file, asks Gemini for a review and posts it as a       *)
(* comment on a pull request.                                              *)
(*                                                                         *)
(* Strings are sequences of one-character strings; a fixed literal of the  *)
(* source is a one-element sequence holding the literal.  Optional values  *)
(* (None or a value) are records with an isNone field.                     *)
(***************************************************************************)
EXTENDS Integers, Sequences, FiniteSets, TLC

\* ---------------------------------------------------------------- bounds
MaxDiffLen == 11
MaxErrLen == 101
MaxRespLen == 2
MaxFindings == 2

\* ------------------------------------------------------ program constants
TRIVIAL_DIFF_LEN == 10
ERR_TRUNC == 100

GEMINI_MODEL == "gemini-2.5-flash"

LLM_PERSONA == "You are an expert technical PR reviewer. Your tone is professional and focused on actionable risks. Analyze the provided Git diff and Semgrep metadata to produce a structured review."

NO_DIFF_MESSAGE == <<"## Automated Gemini Code Review\n\n**Agent Status:** No significant code diff detected to review.">>

HEADER_PREFIX == <<"## Automated Gemini Code Review for PR #">>

API_KEY_MISSING_MESSAGE == <<"Gemini API Call Failed: API Key is missing from the environment.">>

GEMINI_FAILED_PREFIX == <<"Gemini API Call Failed. Exception: ">>

\* --------------------------------------------------------- optional values
NoneS == [isNone |-> TRUE, s |-> <<>>]

SomeS(str) == [isNone |-> FALSE, s |-> str]

NoneI == [isNone |-> TRUE, v |-> 0]

SomeI(n) == [isNone |-> FALSE, v |-> n]

\* Python truthiness of an optional string: None and "" are falsy
TruthyS(o) == ~o.isNone /\ o.s # <<>>

\* Python truthiness of an optional int: None and 0 are falsy
TruthyI(o) == ~o.isNone /\ o.v # 0

\* ------------------------------------------------------------ int <-> str
DigitChars == <<"0", "1", "2", "3", "4", "5", "6", "7", "8", "9">>

IsDigit(c) == \E i \in 1..10 : DigitChars[i] = c

DigitVal(c) == (CHOOSE i \in 1..10 : DigitChars[i] = c) - 1

RECURSIVE DigitsVal(_)
DigitsVal(s) ==
    IF s = <<>> THEN 0
    ELSE 10 * DigitsVal(SubSeq(s, 1, Len(s) - 1)) + DigitVal(s[Len(s)])

AllDigits(s) == s # <<>> /\ \A i \in 1..Len(s) : IsDigit(s[i])

\* int(x): None raises TypeError, a non-numeric string raises ValueError
\* (both give pr_number = None), otherwise the decimal value, with sign
ParseInt(o) ==
    IF o.isNone THEN NoneI
    ELSE IF AllDigits(o.s) THEN SomeI(DigitsVal(o.s))
    ELSE IF Len(o.s) > 1 /\ o.s[1] = "-" /\ AllDigits(Tail(o.s))
         THEN SomeI(0 - DigitsVal(Tail(o.s)))
    ELSE NoneI

RECURSIVE NatStr(_)
NatStr(n) ==
    IF n < 10 THEN <<DigitChars[n + 1]>>
    ELSE NatStr(n \div 10) \o <<DigitChars[(n % 10) + 1]>>

\* f"{pr_number}" for an int
IntStr(n) == IF n < 0 THEN <<"-">> \o NatStr(0 - n) ELSE NatStr(n)

\* ----------------------------------------------------------------- strip
IsSpace(c) == c = " "

RECURSIVE LStrip(_)
LStrip(s) == IF s # <<>> /\ IsSpace(s[1]) THEN LStrip(Tail(s)) ELSE s

RECURSIVE RStrip(_)
RStrip(s) ==
    IF s # <<>> /\ IsSpace(s[Len(s)]) THEN RStrip(SubSeq(s, 1, Len(s) - 1)) ELSE s

Strip(s) == RStrip(LStrip(s))

\* s[:n]
Prefix(s, n) == SubSeq(s, 1, IF Len(s) < n THEN Len(s) ELSE n)

Repeat(c, n) == [i \in 1..n |-> c]

\* ------------------------------------------------------------------ JSON
\* A JSON value v is [t, items]: t its type and items the elements len(v)
\* counts, each a sequence of strings: for a list of finding records the
\* keys of each record in file order, for a str each character, for a dict
\* each key.
JList(items) == [t |-> "list", items |-> items]

JScalar(t) == [t |-> t, items |-> <<>>]

\* the parsed findings file: its top-level type and, for a dict, its keys
\* "results" and "error"
JDoc(top, has_results, results, error) ==
    [top |-> top, has_results |-> has_results, results |-> results, error |-> error]

\* {}
EmptyDict == JDoc("dict", FALSE, JList(<<>>), NoneS)

\* the handler stores str(e) itself instead of a record
ErrorRecord_m(msg) == JDoc("str", FALSE, JList(<<>>), SomeS(msg))

\* {"error": str(e)}
ErrorRecord(msg) == JDoc("dict", FALSE, JList(<<>>), SomeS(msg))

\* x.get exists only on a dict (AttributeError otherwise)
HasGet(j) == j.top = "dict"

\* semgrep_json.get("results", [])
GetResults(j) == IF j.has_results THEN j.results ELSE JList(<<>>)

\* len(x) is defined on list, str and dict (TypeError otherwise)
HasLen(v) == v.t \in {"list", "str", "dict"}

PyLen(v) == Len(v.items)

KeyOrder == <<"check_id", "path", "rule">>

Rank(k) == CHOOSE i \in 1..Len(KeyOrder) : KeyOrder[i] = k

RECURSIVE InsertKey(_, _)
InsertKey(k, sorted) ==
    IF sorted = <<>> THEN <<k>>
    ELSE IF Rank(k) <= Rank(sorted[1]) THEN <<k>> \o sorted
    ELSE <<sorted[1]>> \o InsertKey(k, Tail(sorted))

RECURSIVE SortKeys(_)
SortKeys(ks) == IF ks = <<>> THEN <<>> ELSE InsertKey(ks[1], SortKeys(Tail(ks)))

\* json.dumps(v, indent=2, sort_keys=True): the keys of every record, and
\* of a dict, come out sorted; everything else in source order
Dumps(v) ==
    IF v.t = "list" THEN JList([i \in 1..Len(v.items) |-> SortKeys(v.items[i])])
    ELSE IF v.t = "dict"
         THEN [t |-> "dict",
               items |-> LET ks == SortKeys([i \in 1..Len(v.items) |-> v.items[i][1]])
                         IN  [i \in 1..Len(ks) |-> <<ks[i]>>]]
    ELSE v

\* ---------------------------------------------------------- input domains
SeqsUpTo(S, n) == UNION {[1..k -> S] : k \in 0..n}

EnvValues(valid) == {NoneS, SomeS(<<>>), SomeS(valid)}

PrNumberTexts == {<<>>, <<"x">>, <<"0">>, <<"7">>, <<"1", "2">>, <<"-", "3">>}

Environments ==
    [GEMINI_API_KEY : EnvValues(<<"k">>),
     GITHUB_TOKEN   : EnvValues(<<"t">>),
     REPO_FULL_NAME : EnvValues(<<"o", "/", "r">>),
     PR_NUMBER      : {NoneS} \cup {SomeS(t) : t \in PrNumberTexts}]

\* sys.argv[1:]
ArgLists == {<<>>, <<<<"diff.txt">>>>, <<<<"diff.txt">>, <<"semgrep.json">>>>,
             <<<<>>, <<"semgrep.json">>>>}

DiffTexts == {Repeat("d", n) : n \in 0..MaxDiffLen}

ErrMsgs == {Repeat("e", n) : n \in {0, ERR_TRUNC, MaxErrLen}}

\* str(e) of the AttributeError raised by None.strip()
NoneStripMsg == Repeat("n", 45)

ResponseTexts == SeqsUpTo({" ", "O"}, MaxRespLen)

Findings == {<<"rule">>, <<"path", "check_id">>}

ResultsValues ==
    {JList(l) : l \in SeqsUpTo(Findings, MaxFindings)}
    \cup {[t |-> "str", items |-> <<<<"a">>, <<"b">>>>],
          [t |-> "dict", items |-> <<<<"rule">>, <<"path">>>>],
          JScalar("num"), JScalar("null")}

JsonDocs ==
    {JDoc(top, FALSE, JList(<<>>), NoneS) : top \in {"dict", "list", "str", "num", "null"}}
    \cup {JDoc("dict", TRUE, r, NoneS) : r \in ResultsValues}

ReviewTexts == {<<>>, <<"O", "K">>, NO_DIFF_MESSAGE}

\* ----------------------------------------------------------------- state
VARIABLES
    entry,           \* "main": run as a script; else the function an importer calls
    environ,         \* os.environ
    argv,            \* sys.argv[1:]
    api_key, github_token, repo_full_name, pr_number,
    diff_path, semgrep_path,
    pc,              \* position of the single thread of control
    diff_file,       \* what the diff read met: "none", "missing", "read", "unreadable"
    semgrep_file,    \* same for the findings file, plus "malformed"
    diff_content, semgrep_json, mega_prompt, review_output,
    post_args,       \* arguments of the running post_review call
    caller,          \* who called post_review
    result,          \* return value of call_gemini_api
    missing,         \* the list ValidateEnv builds
    log,             \* what was printed, in order
    files_read,      \* paths opened, in order
    gemini_calls,    \* generate_content requests, in order
    github_calls,    \* hosting-service calls, in order
    exit_code,       \* NoExit while running
    exit_site        \* where the process ended

vars == <<entry, environ, argv, api_key, github_token, repo_full_name, pr_number,
          diff_path, semgrep_path, pc, diff_file, semgrep_file, diff_content,
          semgrep_json, mega_prompt, review_output, post_args, caller, result,
          missing, log, files_read, gemini_calls, github_calls, exit_code, exit_site>>

NoExit == 0 - 1

Entries == {"main", "post_review", "call_gemini_api"}

NoPrompt == [built |-> FALSE, diff |-> <<>>, count |-> 0, findings |-> JList(<<>>)]

LogLine(kind, text) == [kind |-> kind, text |-> text]

Init ==
    /\ entry \in Entries
    /\ environ \in Environments
    /\ argv \in ArgLists
    /\ api_key = NoneS /\ github_token = NoneS /\ repo_full_name = NoneS
    /\ pr_number = NoneI
    /\ diff_path = NoneS /\ semgrep_path = NoneS
    /\ pc = "import"
    /\ diff_file = "none" /\ semgrep_file = "none"
    /\ diff_content = <<>>
    /\ semgrep_json = EmptyDict
    /\ mega_prompt = NoPrompt
    /\ review_output = <<>>
    /\ post_args = [review_text |-> <<>>, skip_header |-> FALSE]
    /\ caller = "none"
    /\ result = <<>>
    /\ missing = <<>>
    /\ log = <<>>
    /\ files_read = <<>>
    /\ gemini_calls = <<>>
    /\ github_calls = <<>>
    /\ exit_code = NoExit
    /\ exit_site = "none"

\* sys.exit(code), or the interpreter ending the process
Exit(code, site) ==
    /\ pc' = "exited"
    /\ exit_code' = code
    /\ exit_site' = site

\* module level, lines 11-28: environment and command line are read once
LoadModule ==
    /\ pc = "import"
    /\ api_key' = environ.GEMINI_API_KEY
    /\ github_token' = environ.GITHUB_TOKEN
    /\ repo_full_name' = environ.REPO_FULL_NAME
    /\ pr_number' = ParseInt(environ.PR_NUMBER)
    /\ diff_path' = IF Len(argv) > 0 THEN SomeS(argv[1]) ELSE NoneS
    /\ semgrep_path' = IF Len(argv) > 1 THEN SomeS(argv[2]) ELSE NoneS
    /\ pc' = IF entry = "main" THEN "main" ELSE "imported"
    /\ UNCHANGED <<entry, environ, argv, diff_file, semgrep_file, diff_content,
                   semgrep_json, mega_prompt, review_output, post_args, caller,
                   result, missing, log, files_read, gemini_calls, github_calls,
                   exit_code, exit_site>>

\* the list of names built at lines 168-172
MissingNames ==
    (IF ~TruthyS(api_key) THEN <<"GEMINI_API_KEY">> ELSE <<>>)
    \o (IF ~TruthyS(github_token) THEN <<"GITHUB_TOKEN">> ELSE <<>>)
    \o (IF ~TruthyS(repo_full_name) THEN <<"REPO_FULL_NAME">> ELSE <<>>)
    \o (IF pr_number.isNone THEN <<"PR_NUMBER">> ELSE <<>>)

\* "is not None" instead of truthiness: a pull-request number 0 passes
EnvComplete_m2 ==
    TruthyS(api_key) /\ TruthyS(github_token) /\ TruthyS(repo_full_name) /\ ~pr_number.isNone

\* the gate forgets the generation-service key
EnvComplete_m ==
    TruthyS(github_token) /\ TruthyS(repo_full_name) /\ TruthyI(pr_number)

\* line 167
EnvComplete ==
    TruthyS(api_key) /\ TruthyS(github_token) /\ TruthyS(repo_full_name) /\ TruthyI(pr_number)

\* __main__, lines 167-175
ValidateEnv ==
    /\ pc = "main"
    /\ IF ~EnvComplete
       THEN /\ missing' = MissingNames
            /\ log' = Append(log, LogLine("critical_missing_env", MissingNames))
            /\ Exit(1, "ValidateEnv")
       ELSE /\ pc' = "read_diff"
            /\ UNCHANGED <<missing, log, exit_code, exit_site>>
    /\ UNCHANGED <<entry, environ, argv, api_key, github_token, repo_full_name,
                   pr_number, diff_path, semgrep_path, diff_file, semgrep_file,
                   diff_content, semgrep_json, mega_prompt, review_output,
                   post_args, caller, result, files_read, gemini_calls, github_calls>>

config == <<entry, environ, argv, api_key, github_token, repo_full_name, pr_number,
            diff_path, semgrep_path>>

\* read_inputs, lines 36-39: the diff file is read when the path is given
\* and exists; open/read raising is not caught anywhere
ReadDiff ==
    /\ pc = "read_diff"
    /\ IF ~TruthyS(diff_path)
       THEN /\ diff_content' = <<>>
            /\ pc' = "trivial_check"
            /\ UNCHANGED <<diff_file, files_read, exit_code, exit_site>>
       ELSE \/ /\ diff_file' = "missing"
               /\ diff_content' = <<>>
               /\ pc' = "trivial_check"
               /\ UNCHANGED <<files_read, exit_code, exit_site>>
            \/ \E text \in DiffTexts :
               /\ diff_file' = "read"
               /\ files_read' = Append(files_read, diff_path.s)
               /\ diff_content' = text
               /\ pc' = "trivial_check"
               /\ UNCHANGED <<exit_code, exit_site>>
            \/ /\ diff_file' = "unreadable"
               /\ files_read' = Append(files_read, diff_path.s)
               /\ Exit(1, "Uncaught")
               /\ UNCHANGED diff_content
    /\ UNCHANGED <<config, semgrep_file, semgrep_json, mega_prompt, review_output,
                   post_args, caller, result, missing, log, gemini_calls, github_calls>>

\* off by one in the threshold
TrivialDiff_m(text) == Len(text) < TRIVIAL_DIFF_LEN - 1

\* line 42
TrivialDiff(text) == Len(text) < TRIVIAL_DIFF_LEN

\* read_inputs, lines 42-44: a trivial diff goes to post_review with the
\* fixed message and skip_header=True
TrivialDiffCheck ==
    /\ pc = "trivial_check"
    /\ IF TrivialDiff(diff_content)
       THEN /\ post_args' = [review_text |-> NO_DIFF_MESSAGE, skip_header |-> TRUE]
            /\ caller' = "read_inputs"
            /\ pc' = "post_review"
       ELSE /\ pc' = "read_semgrep"
            /\ UNCHANGED <<post_args, caller>>
    /\ UNCHANGED <<config, diff_file, semgrep_file, diff_content, semgrep_json,
                   mega_prompt, review_output, result, missing, log, files_read,
                   gemini_calls, github_calls, exit_code, exit_site>>

\* read_inputs, line 45
ShortCircuitExit ==
    /\ pc = "short_circuit_exit"
    /\ Exit(0, "ShortCircuit")
    /\ UNCHANGED <<config, diff_file, semgrep_file, diff_content, semgrep_json,
                   mega_prompt, review_output, post_args, caller, result, missing,
                   log, files_read, gemini_calls, github_calls>>

\* read_inputs, lines 47-56: any exception of open or json.load becomes an
\* error record and a warning
ReadSemgrep ==
    /\ pc = "read_semgrep"
    /\ IF ~TruthyS(semgrep_path)
       THEN /\ semgrep_json' = EmptyDict
            /\ UNCHANGED <<semgrep_file, files_read, log>>
       ELSE \/ /\ semgrep_file' = "missing"
               /\ semgrep_json' = EmptyDict
               /\ UNCHANGED <<files_read, log>>
            \/ \E doc \in JsonDocs :
               /\ semgrep_file' = "read"
               /\ files_read' = Append(files_read, semgrep_path.s)
               /\ semgrep_json' = doc
               /\ UNCHANGED log
            \/ \E kind \in {"unreadable", "malformed"}, e \in ErrMsgs :
               /\ semgrep_file' = kind
               /\ files_read' = Append(files_read, semgrep_path.s)
               /\ log' = Append(log, LogLine("semgrep_warning", e))
               /\ semgrep_json' = ErrorRecord(e)   \* line 54
    /\ pc' = "create_prompt"
    /\ UNCHANGED <<config, diff_file, diff_content, mega_prompt, review_output,
                   post_args, caller, result, missing, gemini_calls, github_calls,
                   exit_code, exit_site>>

\* create_mega_prompt, lines 99 and 108: .get on a non-dict and len() of a
\* value without length raise
PromptRaises(json) == ~HasGet(json) \/ ~HasLen(GetResults(json))

\* len(semgrep_json) instead of len(findings): the keys of the report are counted
MegaPrompt_m(text, json) ==
    [built |-> TRUE,
     diff |-> text,
     count |-> (IF json.has_results THEN 1 ELSE 0) + (IF json.error.isNone THEN 0 ELSE 1),
     findings |-> Dumps(GetResults(json))]

\* create_mega_prompt, lines 99-132: the template with its three holes
MegaPrompt(text, json) ==
    [built |-> TRUE,
     diff |-> text,
     count |-> PyLen(GetResults(json)),
     findings |-> Dumps(GetResults(json))]

\* __main__, line 181
CreateMegaPrompt ==
    /\ pc = "create_prompt"
    /\ IF PromptRaises(semgrep_json)
       THEN /\ Exit(1, "Uncaught")
            /\ UNCHANGED mega_prompt
       ELSE /\ mega_prompt' = MegaPrompt(diff_content, semgrep_json)
            /\ pc' = "call_gemini_api"
            /\ UNCHANGED <<exit_code, exit_site>>
    /\ UNCHANGED <<config, diff_file, semgrep_file, diff_content, semgrep_json,
                   review_output, post_args, caller, result, missing, log,
                   files_read, gemini_calls, github_calls>>

\* the failure description is embedded whole
Fallback_m(e) == GEMINI_FAILED_PREFIX \o e \o <<"...">>

\* line 159
Fallback(e) == GEMINI_FAILED_PREFIX \o Prefix(e, ERR_TRUNC) \o <<"...">>

\* lines 146-154, and what the service did with the request: it answered
\* with a text, answered without one (response.text is None), or raised
GeminiCall(prompt, kind, raw) ==
    [model |-> GEMINI_MODEL, system |-> LLM_PERSONA, user |-> prompt,
     response |-> [kind |-> kind, raw |-> raw]]

\* "is None" instead of falsiness: an empty key passes
ApiKeyMissing_m == api_key.isNone

\* line 138
ApiKeyMissing == ~TruthyS(api_key)

\* call_gemini_api, lines 135-159
CallGeminiApi ==
    /\ pc = "call_gemini_api"
    /\ IF ApiKeyMissing
       THEN /\ log' = Append(log, LogLine("gemini_key_not_set", <<>>))
            /\ result' = API_KEY_MISSING_MESSAGE
            /\ UNCHANGED gemini_calls
       ELSE \/ \E text \in ResponseTexts :   \* the service answers with a text
               /\ gemini_calls' = Append(gemini_calls, GeminiCall(mega_prompt, "text", text))
               /\ result' = Strip(text)
               /\ UNCHANGED log
            \/ \* response.text is None: .strip() raises AttributeError
               /\ gemini_calls' = Append(gemini_calls, GeminiCall(mega_prompt, "no_text", <<>>))
               /\ log' = Append(log, LogLine("gemini_error", NoneStripMsg))
               /\ result' = Fallback(NoneStripMsg)
            \/ \E e \in ErrMsgs :            \* generate_content raises
               /\ gemini_calls' = Append(gemini_calls, GeminiCall(mega_prompt, "raised", e))
               /\ log' = Append(log, LogLine("gemini_error", e))
               /\ result' = Fallback(e)
            \/ \E e \in ErrMsgs :            \* genai.Client raises
               /\ log' = Append(log, LogLine("gemini_error", e))
               /\ result' = Fallback(e)
               /\ UNCHANGED gemini_calls
    /\ pc' = IF entry = "main" THEN "main_post" ELSE "returned"
    /\ UNCHANGED <<config, diff_file, semgrep_file, diff_content, semgrep_json,
                   mega_prompt, review_output, post_args, caller, missing,
                   files_read, github_calls, exit_code, exit_site>>

\* __main__, lines 184 and 187
MainPostReview ==
    /\ pc = "main_post"
    /\ review_output' = result
    /\ post_args' = [review_text |-> result, skip_header |-> FALSE]
    /\ caller' = "main"
    /\ pc' = "post_review"
    /\ UNCHANGED <<config, diff_file, semgrep_file, diff_content, semgrep_json,
                   mega_prompt, result, missing, log, files_read, gemini_calls,
                   github_calls, exit_code, exit_site>>

\* the check forgets the pull-request number
IdentityMissing_m == ~(TruthyS(github_token) /\ TruthyS(repo_full_name))

\* line 64
IdentityMissing ==
    ~(TruthyS(github_token) /\ TruthyS(repo_full_name) /\ TruthyI(pr_number))

\* line 79
Header(n) == HEADER_PREFIX \o IntStr(n) \o <<"\n\n">>

\* skip_header is ignored
FinalComment_m(review_text, skip_header) == Header(pr_number.v) \o review_text

\* lines 76-80
FinalComment(review_text, skip_header) ==
    IF skip_header THEN review_text ELSE Header(pr_number.v) \o review_text

GithubCall(method, body, raised) ==
    [method |-> method, repo |-> repo_full_name.s, number |-> pr_number.v,
     body |-> body, raised |-> raised]

\* lines 71-82: the calls made when the one at position failed raises
\* (position 0: Github() itself raises; 4: none raises)
GithubCallsUpTo(failed, body) ==
    LET all == <<GithubCall("get_repo", <<>>, failed = 1),
                 GithubCall("get_pull", <<>>, failed = 2),
                 GithubCall("create_issue_comment", body, failed = 3)>>
    IN  SubSeq(all, 1, IF failed > 3 THEN 3 ELSE failed)

\* lines 65-66
MissingIdentityLog(review_text) ==
    <<LogLine("post_missing_identity", <<>>), LogLine("generated_review", review_text)>>

\* the handler logs the error but not the review
PostFailureLog_m(e, review_text) == <<LogLine("post_error", e)>>

\* lines 86-88
PostFailureLog(e, review_text) ==
    <<LogLine("post_error", e), LogLine("review_not_posted", review_text)>>

\* read_inputs forgets sys.exit(0): after the notice the run goes on
ReturnSite_m ==
    IF caller = "read_inputs" THEN "read_semgrep"
    ELSE IF caller = "main" THEN "final_echo"
    ELSE "returned"

\* where post_review returns to
ReturnSite ==
    IF caller = "read_inputs" THEN "short_circuit_exit"
    ELSE IF caller = "main" THEN "final_echo"
    ELSE "returned"

\* the handler forgets sys.exit(1) and post_review returns
PostFailureExit_m ==
    /\ pc' = ReturnSite
    /\ UNCHANGED <<exit_code, exit_site>>

\* line 89
PostFailureExit == Exit(1, "Publish")

\* post_review, lines 61-89
PostReview ==
    /\ pc = "post_review"
    /\ IF IdentityMissing
       THEN /\ log' = log \o MissingIdentityLog(post_args.review_text)
            /\ pc' = ReturnSite
            /\ UNCHANGED <<github_calls, exit_code, exit_site>>
       ELSE LET body == FinalComment(post_args.review_text, post_args.skip_header)
            IN  \/ /\ github_calls' = github_calls \o GithubCallsUpTo(4, body)
                   /\ log' = Append(log, LogLine("post_success", <<>>))
                   /\ pc' = ReturnSite
                   /\ UNCHANGED <<exit_code, exit_site>>
                \/ \E failed \in 0..3, e \in ErrMsgs :
                   /\ github_calls' = github_calls \o GithubCallsUpTo(failed, body)
                   /\ log' = log \o PostFailureLog(e, post_args.review_text)
                   /\ PostFailureExit
    /\ UNCHANGED <<config, diff_file, semgrep_file, diff_content, semgrep_json,
                   mega_prompt, review_output, post_args, caller, result, missing,
                   files_read, gemini_calls>>

\* __main__, lines 190-191, then the script ends
FinalEcho ==
    /\ pc = "final_echo"
    /\ log' = log \o <<LogLine("final_banner", <<>>), LogLine("final_review", review_output)>>
    /\ Exit(0, "Done")
    /\ UNCHANGED <<config, diff_file, semgrep_file, diff_content, semgrep_json,
                   mega_prompt, review_output, post_args, caller, result, missing,
                   files_read, gemini_calls, github_calls>>

\* an importer (line 164 is false) calls post_review(review_text, skip_header)
ImporterCallsPostReview ==
    /\ pc = "imported"
    /\ entry = "post_review"
    /\ \E text \in ReviewTexts, skip \in BOOLEAN :
          post_args' = [review_text |-> text, skip_header |-> skip]
    /\ caller' = "importer"
    /\ pc' = "post_review"
    /\ UNCHANGED <<config, diff_file, semgrep_file, diff_content, semgrep_json,
                   mega_prompt, review_output, result, missing, log, files_read,
                   gemini_calls, github_calls, exit_code, exit_site>>

\* an importer calls call_gemini_api(mega_prompt)
ImporterCallsGeminiApi ==
    /\ pc = "imported"
    /\ entry = "call_gemini_api"
    /\ \E text \in {Repeat("d", TRIVIAL_DIFF_LEN)}, doc \in {EmptyDict} :
          mega_prompt' = MegaPrompt(text, doc)
    /\ pc' = "call_gemini_api"
    /\ UNCHANGED <<config, diff_file, semgrep_file, diff_content, semgrep_json,
                   review_output, post_args, caller, result, missing, log,
                   files_read, gemini_calls, github_calls, exit_code, exit_site>>

Next ==
    \/ LoadModule
    \/ ValidateEnv
    \/ ReadDiff
    \/ TrivialDiffCheck
    \/ ShortCircuitExit
    \/ ReadSemgrep
    \/ CreateMegaPrompt
    \/ CallGeminiApi
    \/ MainPostReview
    \/ PostReview
    \/ FinalEcho
    \/ ImporterCallsPostReview
    \/ ImporterCallsGeminiApi

Spec == Init /\ [][Next]_vars

\* the single thread runs until the process ends or the called function returns
FairSpec == Spec /\ WF_vars(Next)

\* ------------------------------------------------------- shared predicates
Absent(o) == o.isNone \/ o.s = <<>>

Logged(kind, text) == \E i \in 1..Len(log) : log[i] = LogLine(kind, text)

LoggedKind(kind) == \E i \in 1..Len(log) : log[i].kind = kind

PostRaised == LoggedKind("post_error")

\* post_review was called and has finished
PostReviewRan == caller # "none" /\ pc # "post_review"

\* call_gemini_api was called and has returned
GeminiReturned ==
    \/ entry = "main" /\ (pc = "main_post" \/ caller = "main")
    \/ entry = "call_gemini_api" /\ pc = "returned"

IsComment(c) == c.method = "create_issue_comment"

\* ---------------------------------------------------------------------- C1
\* C1: in a run of the script whose diff text is shorter than 10
\* characters no prompt is built, the generation service is never called,
\* post_review is only ever called with the fixed message and skip_header,
\* and every comment body handed to the hosting service is that message.
C1_TrivialDiffNeverGenerates ==
    (entry = "main" /\ Len(diff_content) < TRIVIAL_DIFF_LEN) =>
        /\ ~mega_prompt.built
        /\ gemini_calls = <<>>
        /\ caller # "none" =>
              post_args = [review_text |-> NO_DIFF_MESSAGE, skip_header |-> TRUE]
        /\ \A i \in 1..Len(github_calls) :
              IsComment(github_calls[i]) => github_calls[i].body = NO_DIFF_MESSAGE

C1_Witness ==
    /\ entry = "main"
    /\ exit_site = "ShortCircuit"
    /\ diff_file = "read"
    /\ Len(diff_content) = TRIVIAL_DIFF_LEN - 1
    /\ \E i \in 1..Len(github_calls) :
          IsComment(github_calls[i]) /\ github_calls[i].body = NO_DIFF_MESSAGE

\* ---------------------------------------------------------------------- C2
\* a run of the script that passed ValidateEnv and has a diff text shorter
\* than 10 characters
ShortDiffRun ==
    /\ entry = "main"
    /\ pc \notin {"import", "main", "read_diff"}
    /\ exit_site \notin {"ValidateEnv", "Uncaught"}
    /\ Len(diff_content) < TRIVIAL_DIFF_LEN

\* C2 as stated: every such run ends with exit code 0, whatever the
\* posting call did.
C2_AlwaysExitZero == (ShortDiffRun /\ pc = "exited") => exit_code = 0

\* C2 amended: every such run terminates, with exit code 0 when the posting
\* call on the short-circuit path succeeds and with exit code 1 when it raises.
C2_ExitFollowsPost ==
    /\ []((ShortDiffRun /\ pc = "exited") => exit_code = IF PostRaised THEN 1 ELSE 0)
    /\ (ShortDiffRun ~> pc = "exited")

C2_Witness ==
    /\ ShortDiffRun
    /\ pc = "exited"
    /\ PostRaised
    /\ exit_code = 1
    /\ \E i \in 1..Len(github_calls) : IsComment(github_calls[i]) /\ github_calls[i].raised

\* ---------------------------------------------------------------------- C3
PrRange == (0 - 99)..99

\* the text is the decimal form of an integer
IsIntegerText(str) == \E n \in PrRange : IntStr(n) = str

RequiredValueMissing ==
    \/ Absent(environ.GEMINI_API_KEY)
    \/ Absent(environ.GITHUB_TOKEN)
    \/ Absent(environ.REPO_FULL_NAME)
    \/ Absent(environ.PR_NUMBER)
    \/ ~IsIntegerText(environ.PR_NUMBER.s)

\* C3: when one of the four required values is missing at startup, the
\* script ends with exit code 1 and in that run no input file is looked at
\* or read, the generation service is not called and no post is attempted.
C3_MissingEnvFailsFast ==
    /\ []((entry = "main" /\ RequiredValueMissing) =>
            /\ files_read = <<>>
            /\ diff_file = "none" /\ semgrep_file = "none"
            /\ gemini_calls = <<>>
            /\ github_calls = <<>>
            /\ caller = "none"
            /\ pc = "exited" => exit_code = 1)
    /\ ((entry = "main" /\ RequiredValueMissing) ~> (pc = "exited" /\ exit_code = 1))

C3_Witness ==
    /\ entry = "main"
    /\ pc = "exited" /\ exit_code = 1 /\ exit_site = "ValidateEnv"
    /\ environ.PR_NUMBER.isNone
    /\ ~Absent(environ.GEMINI_API_KEY)
    /\ ~Absent(environ.GITHUB_TOKEN)
    /\ ~Absent(environ.REPO_FULL_NAME)
    /\ Len(argv) = 2

\* ---------------------------------------------------------------------- C4
\* C4: whenever the posting call raised, on the normal publish or on the
\* short-circuit publish, the process has ended with exit code 1 and the
\* log holds the full review text that was not posted.
C4_PostFailureIsFatalAndLogged ==
    PostRaised =>
        /\ pc = "exited"
        /\ exit_code = 1
        /\ Logged("review_not_posted", post_args.review_text)

C4_Witness ==
    /\ PostRaised
    /\ caller = "main"
    /\ post_args.review_text = <<"O">>
    /\ pc = "exited"
    /\ \E i \in 1..Len(github_calls) : IsComment(github_calls[i]) /\ github_calls[i].raised

\* ---------------------------------------------------------------------- C5
\* r is raw without its leading and trailing spaces
IsTrimOf(r, raw) ==
    \E i \in 1..(Len(raw) + 1), j \in 0..Len(raw) :
        /\ r = SubSeq(raw, i, j)
        /\ \A k \in 1..Len(raw) : (k < i \/ k > j) => raw[k] = " "
        /\ r # <<>> => (r[1] # " " /\ r[Len(r)] # " ")

\* r is the fallback text around a prefix of msg of at most 100 characters
IsFallbackOf(r, msg) ==
    \E k \in 0..ERR_TRUNC :
        /\ k <= Len(msg)
        /\ r = GEMINI_FAILED_PREFIX \o SubSeq(msg, 1, k) \o <<"...">>

\* C5: call_gemini_api always returns a string: the trimmed response text,
\* or a fallback embedding at most the first 100 characters of the failure
\* description (or the fixed missing-key text); it never ends the process,
\* and the script goes on to post_review with exactly that string.
C5_RequesterAlwaysReturns ==
    /\ [](GeminiReturned =>
            /\ \/ /\ gemini_calls # <<>>
                  /\ gemini_calls[1].response.kind = "text"
                  /\ ~LoggedKind("gemini_error")
                  /\ IsTrimOf(result, gemini_calls[1].response.raw)
               \/ \E i \in 1..Len(log) :
                     log[i].kind = "gemini_error" /\ IsFallbackOf(result, log[i].text)
               \/ Absent(api_key) /\ result = API_KEY_MISSING_MESSAGE
            /\ (entry = "main" /\ pc # "main_post") =>
                  /\ post_args = [review_text |-> result, skip_header |-> FALSE]
                  /\ exit_site \in {"none", "Publish", "Done"})
    /\ ((entry = "main" /\ pc = "call_gemini_api")
            ~> (pc = "post_review" /\ caller = "main" /\ post_args.review_text = result))

C5_Witness ==
    /\ entry = "main"
    /\ pc = "post_review"
    /\ \E i \in 1..Len(log) : log[i].kind = "gemini_error" /\ Len(log[i].text) > ERR_TRUNC
    /\ Len(result) = ERR_TRUNC + 2
    /\ post_args.review_text = result

\* ---------------------------------------------------------------------- C6
\* C6: every run of the script ends in one of the four declared terminal
\* states; none ends because an exception escaped uncaught.
C6_OnlyDeclaredTerminalStates ==
    (entry = "main" /\ pc = "exited") =>
        exit_site \in {"Done", "ShortCircuit", "ValidateEnv", "Publish"}

\* ---------------------------------------------------------------------- C7
FindingsUnusable == semgrep_file \in {"malformed", "unreadable"}

\* C7: when the findings file exists but cannot be read or parsed (and the
\* diff has at least 10 characters), the findings report is an error record
\* carrying the message, a warning is logged, the prompt is built with a
\* findings count of 0 and an empty list, and the run goes on through the
\* generation step to post_review.
C7_BadFindingsFileContinues ==
    /\ []((entry = "main" /\ FindingsUnusable) =>
            /\ Len(diff_content) >= TRIVIAL_DIFF_LEN
            /\ semgrep_json.top = "dict"
            /\ ~semgrep_json.has_results
            /\ ~semgrep_json.error.isNone
            /\ Logged("semgrep_warning", semgrep_json.error.s)
            /\ exit_site # "Uncaught"
            /\ pc # "create_prompt" =>
                  /\ mega_prompt.built
                  /\ mega_prompt.count = 0
                  /\ mega_prompt.findings = JList(<<>>))
    /\ ((entry = "main" /\ FindingsUnusable /\ pc = "create_prompt")
            ~> (pc = "post_review" /\ caller = "main" /\ GeminiReturned
                /\ mega_prompt.count = 0))

C7_Witness ==
    /\ entry = "main"
    /\ semgrep_file = "malformed"
    /\ pc = "post_review" /\ caller = "main"
    /\ mega_prompt.built /\ mega_prompt.count = 0
    /\ gemini_calls # <<>>

\* ---------------------------------------------------------------------- C8
IdentityIncomplete ==
    Absent(github_token) \/ Absent(repo_full_name) \/ pr_number.isNone

\* C8: when post_review has run while the token, the repository name or
\* the pull-request number was missing, no call to the hosting service was
\* made, the full review text is in the log, and the function returned to
\* its caller without ending the process.
C8_IncompleteIdentitySkipsPost ==
    (PostReviewRan /\ IdentityIncomplete) =>
        /\ github_calls = <<>>
        /\ Logged("generated_review", post_args.review_text)
        /\ exit_site # "Publish"
        /\ caller = "importer" => (pc = "returned" /\ exit_code = NoExit)

C8_Witness ==
    /\ entry = "post_review"
    /\ pc = "returned"
    /\ pr_number.isNone
    /\ TruthyS(github_token) /\ TruthyS(repo_full_name)
    /\ post_args.review_text = <<"O", "K">>

\* ---------------------------------------------------------------------- C9
\* C9: when call_gemini_api has run while the API key was absent (unset or
\* empty), it returned the fixed 'API Key is missing' text and no request
\* went to the generation service.
C9_MissingKeyMakesNoCall ==
    (GeminiReturned /\ Absent(api_key)) =>
        /\ result = API_KEY_MISSING_MESSAGE
        /\ gemini_calls = <<>>

C9_Witness ==
    /\ entry = "call_gemini_api"
    /\ pc = "returned"
    /\ ~api_key.isNone /\ api_key.s = <<>>
    /\ result = API_KEY_MISSING_MESSAGE

\* --------------------------------------------------------------------- C10
\* body is the header line for pull request n followed by text
HasHeader(body, text, n) ==
    LET k == Len(body) - Len(text)
    IN  /\ k >= 3
        /\ SubSeq(body, k + 1, Len(body)) = text
        /\ body[1] = HEADER_PREFIX[1]
        /\ body[k] = "\n\n"
        /\ ParseInt(SomeS(SubSeq(body, 2, k - 1))) = SomeI(n)

\* C10: every comment body handed to the hosting service is the review text
\* unchanged when skip_header is set, and otherwise the header line carrying
\* the pull-request number followed by the review text unchanged; the
\* comment goes to the pull request fetched with the configured number, the
\* one the header names; the script posts what call_gemini_api returned,
\* with the header, and the short-circuit posts without it.
C10_CommentBodyShape ==
    \A i \in 1..Len(github_calls) :
        LET c == github_calls[i]
        IN  IsComment(c) =>
              /\ i > 1
              /\ github_calls[i - 1].method = "get_pull"
              /\ github_calls[i - 1].number = c.number
              /\ environ.PR_NUMBER.s = IntStr(c.number)
              /\ c.repo = environ.REPO_FULL_NAME.s
              /\ IF post_args.skip_header
                 THEN c.body = post_args.review_text
                 ELSE HasHeader(c.body, post_args.review_text, c.number)
              /\ caller = "main" =>
                    (~post_args.skip_header /\ post_args.review_text = result)
              /\ caller = "read_inputs" => post_args.skip_header

C10_Witness ==
    /\ entry = "main"
    /\ exit_site = "Done"
    /\ result = <<"O">>
    /\ \E i \in 1..Len(github_calls) :
          /\ IsComment(github_calls[i])
          /\ github_calls[i].number = 12
          /\ github_calls[i].body = HEADER_PREFIX \o <<"1", "2", "\n\n", "O">>

\* --------------------------------------------------------------------- C11
\* the names of the required values the gate at line 167 found falsy
TreatedAsMissing ==
    (IF Absent(api_key) THEN {"GEMINI_API_KEY"} ELSE {})
    \cup (IF Absent(github_token) THEN {"GITHUB_TOKEN"} ELSE {})
    \cup (IF Absent(repo_full_name) THEN {"REPO_FULL_NAME"} ELSE {})
    \cup (IF pr_number.isNone \/ pr_number.v = 0 THEN {"PR_NUMBER"} ELSE {})

\* C11: whenever ValidateEnv ends the run, the diagnostic it logged lists a
\* non-empty set of names that contains the name of every required value
\* the gate treated as missing.
C11_DiagnosticNamesEveryCause ==
    exit_site = "ValidateEnv" =>
        /\ missing # <<>>
        /\ Logged("critical_missing_env", missing)
        /\ \A name \in TreatedAsMissing : \E i \in 1..Len(missing) : missing[i] = name

\* --------------------------------------------------------------------- C12
\* a ReviewText exists: the trivial-diff notice or what call_gemini_api returned
ReviewProduced == entry = "main" /\ (caller = "read_inputs" \/ GeminiReturned)

\* the ReviewText of the run
ProducedText == IF caller = "read_inputs" THEN NO_DIFF_MESSAGE ELSE result

\* the text was printed whole, by whichever print
LoggedInFull(text) ==
    \E i \in 1..Len(log) :
        /\ log[i].kind \in {"generated_review", "review_not_posted", "final_review"}
        /\ log[i].text = text

\* C12: in every run of the script in which a ReviewText was produced, the
\* text is in the log when the process has ended, on every path.
C12_ReviewTextAlwaysLogged ==
    (ReviewProduced /\ pc = "exited") => LoggedInFull(ProducedText)

\* --------------------------------------------------------------------- C13
NumComments == Cardinality({i \in 1..Len(github_calls) : IsComment(github_calls[i])})

\* how many ReviewTexts the run has produced so far
NumReviewTexts ==
    (IF caller = "read_inputs" THEN 1 ELSE 0) + (IF GeminiReturned THEN 1 ELSE 0)

\* C13: the generation service is called at most once and create-comment
\* at most once in a run, and a run of the script that passed ValidateEnv
\* has produced exactly one ReviewText when it ends.
C13_SingleAttemptSingleReview ==
    /\ Len(gemini_calls) <= 1
    /\ NumComments <= 1
    /\ NumReviewTexts <= 1
    /\ (entry = "main" /\ pc = "exited" /\ exit_site # "ValidateEnv") => NumReviewTexts = 1

\* the part of C13 that does not depend on how the run ends
C13_AtMostOnce ==
    /\ Len(gemini_calls) <= 1
    /\ NumComments <= 1
    /\ NumReviewTexts <= 1
    /\ (entry = "main" /\ exit_site \in {"ShortCircuit", "Publish", "Done"}) =>
          NumReviewTexts = 1

\* --------------------------------------------------------------------- C14
\* the diff step of read_inputs is over
DiffStepDone == entry = "main" /\ pc \notin {"import", "main", "read_diff"}
                /\ exit_site # "ValidateEnv"

\* C14: when the diff path is absent, names no existing file or names a
\* file that cannot be read, the diff text is empty and the run takes the
\* trivial-diff short-circuit instead of failing.
C14_UnavailableDiffShortCircuits ==
    (DiffStepDone /\ diff_file \in {"none", "missing", "unreadable"}) =>
        /\ diff_content = <<>>
        /\ exit_site # "Uncaught"
        /\ pc # "trivial_check" => caller = "read_inputs"

\* --------------------------------------------------------------------- C15
IsSorted(ks) == \A i \in 1..(Len(ks) - 1) : Rank(ks[i]) <= Rank(ks[i + 1])

SameKeys(a, b) ==
    /\ Len(a) = Len(b)
    /\ {a[i] : i \in 1..Len(a)} = {b[i] : i \in 1..Len(b)}

\* C15: in the prompt the script builds, the diff is the diff read, the
\* findings count is the number of entries of the report's results list
\* and 0 when the report has no results (empty or an error record), and the
\* findings block holds those entries in order with their keys sorted: the
\* prompt is determined by (diff, findings) alone.
C15_PromptIsFunctionOfInputs ==
    (entry = "main" /\ mega_prompt.built) =>
        /\ mega_prompt.diff = diff_content
        /\ ~semgrep_json.has_results =>
              (mega_prompt.count = 0 /\ mega_prompt.findings = JList(<<>>))
        /\ (semgrep_json.has_results /\ semgrep_json.results.t = "list") =>
              LET entries == semgrep_json.results.items
              IN  /\ mega_prompt.count = Cardinality(DOMAIN entries)
                  /\ mega_prompt.findings.t = "list"
                  /\ Len(mega_prompt.findings.items) = Len(entries)
                  /\ \A i \in 1..Len(entries) :
                        /\ SameKeys(mega_prompt.findings.items[i], entries[i])
                        /\ IsSorted(mega_prompt.findings.items[i])

C15_Witness ==
    /\ entry = "main"
    /\ mega_prompt.built
    /\ Len(mega_prompt.diff) = TRIVIAL_DIFF_LEN
    /\ semgrep_json.has_results
    /\ semgrep_json.results = JList(<<<<"path", "check_id">>, <<"rule">>>>)
    /\ mega_prompt.count = 2
    /\ mega_prompt.findings = JList(<<<<"check_id", "path">>, <<"rule">>>>)

\* --------------------------------------------------------------------- C16
\* the state of the declared machine the script is in
MachineState ==
    IF pc = "import" THEN "Init"
    ELSE IF pc = "main" THEN "ValidateEnv"
    ELSE IF pc \in {"read_diff", "trivial_check", "read_semgrep", "short_circuit_exit"}
         THEN "LoadInputs"
    ELSE IF pc = "post_review" THEN (IF caller = "read_inputs" THEN "LoadInputs" ELSE "Publish")
    ELSE IF pc = "create_prompt" THEN "BuildPrompt"
    ELSE IF pc = "call_gemini_api" THEN "RequestReview"
    ELSE IF pc \in {"main_post", "final_echo"} THEN "Publish"
    ELSE IF exit_site = "ShortCircuit" THEN "ShortCircuitExit"
    ELSE IF exit_site = "Done" THEN "Done"
    ELSE IF exit_site = "Uncaught" THEN "Crashed"
    ELSE "Failed"

\* the edges of the declared machine; the failure exits are the one at
\* ValidateEnv and the one inside the publisher, which LoadInputs calls on
\* the short-circuit
MachineEdges ==
    {<<"Init", "ValidateEnv">>, <<"ValidateEnv", "LoadInputs">>,
     <<"LoadInputs", "ShortCircuitExit">>, <<"LoadInputs", "BuildPrompt">>,
     <<"BuildPrompt", "RequestReview">>, <<"RequestReview", "Publish">>,
     <<"Publish", "Done">>}
    \cup {<<st, "Failed">> : st \in {"ValidateEnv", "LoadInputs", "Publish"}}

\* what the run has done to the outside world
ExternalEffects == <<files_read, gemini_calls, github_calls>>

HeaderComment(c) == IsComment(c) /\ c.body # <<>> /\ c.body[1] = HEADER_PREFIX[1]

\* C16: the steps of a run of the script follow the declared machine:
\* every step stays in its state or takes one declared edge (no state is
\* entered twice or skipped); files are read only after ValidateEnv passed;
\* the prompt is built only after the reads; the single generation call
\* carries the prompt built before it; a comment with a header is posted
\* only after the generation step returned; once the notice of the
\* short-circuit is posted the run only exits; after a terminal state
\* nothing changes any more.  A run cut short by an uncaught exception
\* (C6) stops on the path it was on: it takes no other edge.
C16_StepsFollowStateMachine ==
    /\ [](entry = "main" =>
            /\ files_read # <<>> => (MachineState \notin {"Init", "ValidateEnv"}
                                    /\ exit_site # "ValidateEnv")
            /\ mega_prompt.built => (pc \notin {"import", "main", "read_diff",
                                                "trivial_check", "read_semgrep"}
                                    /\ mega_prompt.diff = diff_content)
            /\ gemini_calls # <<>> => (/\ Len(gemini_calls) = 1
                                       /\ mega_prompt.built
                                       /\ gemini_calls[1].user = mega_prompt
                                       /\ GeminiReturned)
            /\ \A i \in 1..Len(github_calls) :
                  /\ HeaderComment(github_calls[i]) => (GeminiReturned /\ caller = "main")
                  /\ (IsComment(github_calls[i]) /\ ~HeaderComment(github_calls[i])) =>
                        (/\ MachineState \in {"LoadInputs", "ShortCircuitExit", "Failed"}
                         /\ ~mega_prompt.built
                         /\ gemini_calls = <<>>))
    /\ [][entry = "main" =>
            /\ \/ MachineState' = MachineState
               \/ <<MachineState, MachineState'>> \in MachineEdges
               \/ MachineState' = "Crashed"
            /\ pc = "exited" => UNCHANGED vars
            /\ ExternalEffects' # ExternalEffects =>
                  MachineState \in {"LoadInputs", "RequestReview", "Publish"}]_vars

C16_Witness ==
    /\ entry = "main"
    /\ MachineState = "Done"
    /\ Len(files_read) = 2
    /\ Len(gemini_calls) = 1
    /\ \E i \in 1..Len(github_calls) :
          HeaderComment(github_calls[i]) /\ ~github_calls[i].raised

\* --------------------------------------------------------------------- C17
\* the globals still hold what the module-level reads put there
ConfigAsRead ==
    /\ api_key = environ.GEMINI_API_KEY
    /\ github_token = environ.GITHUB_TOKEN
    /\ repo_full_name = environ.REPO_FULL_NAME
    /\ pr_number = ParseInt(environ.PR_NUMBER)

PassedValidateEnv ==
    entry = "main" /\ pc \notin {"import", "main"} /\ exit_site # "ValidateEnv"

\* post_review went into its try block
PostAttempted == LoggedKind("post_success") \/ LoggedKind("post_error")

\* C17: the configuration read at startup never changes, so in a run of
\* the script that passed ValidateEnv post_review never takes its
\* missing-identity branch and call_gemini_api never takes its missing-key
\* branch, and every such run has made a posting attempt when it ends.
C17_InnerChecksUnreachableAndPosted ==
    /\ pc # "import" => ConfigAsRead
    /\ PassedValidateEnv =>
          /\ ~LoggedKind("post_missing_identity")
          /\ ~LoggedKind("gemini_key_not_set")
          /\ pc = "exited" => PostAttempted

\* the part of C17 that does not depend on how the run ends
C17_InnerChecksUnreachable ==
    /\ pc # "import" => ConfigAsRead
    /\ PassedValidateEnv =>
          /\ ~LoggedKind("post_missing_identity")
          /\ ~LoggedKind("gemini_key_not_set")
          /\ exit_site \in {"ShortCircuit", "Publish", "Done"} => PostAttempted

\* --------------------------------------------------------------------- C18
\* a run that has a ReviewText to deliver: the script once it produced
\* one, or an importer's call of post_review
HasReviewText ==
    \/ ReviewProduced
    \/ entry = "post_review" /\ caller # "none"

ReviewTextOfRun == IF entry = "main" THEN ProducedText ELSE post_args.review_text

\* the hosting service accepted a comment carrying the text
Posted(text) ==
    \E i \in 1..Len(github_calls) :
        LET c == github_calls[i]
        IN  /\ IsComment(c)
            /\ ~c.raised
            /\ (c.body = text \/ HasHeader(c.body, text, c.number))

\* C18: when a run that had a ReviewText is over (the process ended or
\* post_review returned to the importer), the text was accepted by the
\* hosting service as a comment or is in the log in full.
C18_NoReviewSilentlyLost ==
    (HasReviewText /\ pc \in {"exited", "returned"}) =>
        (Posted(ReviewTextOfRun) \/ LoggedInFull(ReviewTextOfRun))

C18_Witness ==
    /\ entry = "main"
    /\ exit_site = "Publish"
    /\ GeminiReturned
    /\ Len(result) > ERR_TRUNC
    /\ ~Posted(result)
    /\ LoggedInFull(result)

\* --------------------------------------------------------------------- C19
\* C19: a run of the script that ended with exit code 0 made exactly one
\* create-comment call, no hosting call raised and the comment carries the
\* run's ReviewText; and a run whose generation call failed but whose
\* fallback text was posted ends with exit code 0.
C19_ExitZeroCertifiesDelivery ==
    /\ (entry = "main" /\ pc = "exited" /\ exit_code = 0) =>
          /\ NumComments = 1
          /\ \A i \in 1..Len(github_calls) : ~github_calls[i].raised
          /\ ReviewProduced
          /\ Posted(ProducedText)
    /\ (entry = "main" /\ pc = "exited" /\ LoggedKind("gemini_error")
        /\ LoggedKind("post_success")) => exit_code = 0

C19_Witness ==
    /\ entry = "main"
    /\ pc = "exited" /\ exit_code = 0
    /\ \E i \in 1..Len(gemini_calls) : gemini_calls[i].response.kind = "raised"
    /\ LoggedKind("gemini_error")
    /\ IsFallbackOf(result, Repeat("e", ERR_TRUNC))
    /\ Posted(result)

====
